---- MODULE Spec2Model ----
(***************************************************************************)
(* Model of the chess geometry engine (ChessGame_Backend.py: Chess,        *)
(* MyChessGame) and of the position analyser of the GUI (Chess_game.py:    *)
(* ChessGameGUI).                                                          *)
(*                                                                         *)
(* Python strings are modelled as sequences of one-character strings, so   *)
(* that len(), indexing, lower(), ord(), chr(), int(), str() and           *)
(* concatenation are computed and not assumed.  A call that raises is      *)
(* modelled by the record Raise(exc); a call that returns by Ok(value).    *)
(***************************************************************************)
EXTENDS Integers, Sequences, FiniteSets, TLC

VARIABLES
    calls,                \* log of the calls made on class Chess: <<[fn, args, ret]>>
    game,                 \* the MyChessGame instance (NoGame before __init__)
    verdict,              \* what determine_winner returned for `game`
    board_pieces,         \* ChessGameGUI.board_pieces: square -> piece record
    dragging,             \* ChessGameGUI.dragging
    dragging_piece,       \* ChessGameGUI.dragging_piece
    drag_start_board_pos, \* ChessGameGUI.drag_start_board_pos (Absent: no such attribute)
    analysis              \* what analyze_position wrote to analysis_text

vars == <<calls, game, verdict, board_pieces, dragging, dragging_piece,
          drag_start_board_pos, analysis>>

-----------------------------------------------------------------------------
(* Bounds of the model                                                     *)

\* longest algebraic string handed to position_to_coords
MaxLen == 3
\* how far outside 0..7 the coordinates handed to coords_to_position may lie
CoordSlack == 1
\* longest chain of conversions, each applied to the result before it
MaxCalls == 2
\* most pieces on a board that is analysed
MaxPieces == 3

-----------------------------------------------------------------------------
(* Python built-ins on characters and integers                             *)

\* the printable ASCII characters, code points 32..126, in order ("GRAVE" stands
\* for the grave accent, code point 96, which a TLA+ string cannot hold)
Ascii ==
    <<" ", "!", "\"", "#", "$", "%", "&", "'", "(", ")", "*", "+", ",", "-", ".", "/",
      "0", "1", "2", "3", "4", "5", "6", "7", "8", "9", ":", ";", "<", "=", ">", "?",
      "@", "A", "B", "C", "D", "E", "F", "G", "H", "I", "J", "K", "L", "M", "N", "O",
      "P", "Q", "R", "S", "T", "U", "V", "W", "X", "Y", "Z", "[", "\\", "]", "^", "_",
      "GRAVE", "a", "b", "c", "d", "e", "f", "g", "h", "i", "j", "k", "l", "m", "n", "o",
      "p", "q", "r", "s", "t", "u", "v", "w", "x", "y", "z", "{", "|", "}", "~">>

Ok(v) == [ok |-> TRUE, val |-> v]
Raise(e) == [ok |-> FALSE, exc |-> e]

\* code point of each character of the table
CodePoint == [c \in {Ascii[i] : i \in DOMAIN Ascii} |->
                 31 + (CHOOSE i \in DOMAIN Ascii : Ascii[i] = c)]

\* ord(c) of a one-character string
Ord(c) == CodePoint[c]

\* chr(n), for the code points of the table
Chr(n) == Ascii[n - 31]

\* c.lower() of a one-character string
LowerChar(c) == IF Ord(c) >= Ord("A") /\ Ord(c) <= Ord("Z") THEN Chr(Ord(c) + 32) ELSE c

\* s.lower()
RECURSIVE Lower(_)
Lower(s) == IF s = <<>> THEN <<>> ELSE <<LowerChar(Head(s))>> \o Lower(Tail(s))

IsDigit(c) == Ord(c) >= Ord("0") /\ Ord(c) <= Ord("9")

\* int(c) of a one-character string: the digit's value, ValueError otherwise
IntOfChar(c) == IF IsDigit(c) THEN Ok(Ord(c) - Ord("0")) ELSE Raise("ValueError")

\* str(n) of an integer
RECURSIVE StrNat(_)
StrNat(n) == IF n < 10 THEN <<Chr(Ord("0") + n)>>
             ELSE StrNat(n \div 10) \o <<Chr(Ord("0") + (n % 10))>>

Str(n) == IF n < 0 THEN <<"-">> \o StrNat(-n) ELSE StrNat(n)

-----------------------------------------------------------------------------
(* class Chess                                                             *)

is_valid_position(row, col) == 0 <= row /\ row <= 7 /\ 0 <= col /\ col <= 7

position_to_coords(position) ==
    IF Len(position) # 2 THEN Raise("ValueError")
    ELSE LET col == Ord(LowerChar(position[1])) - Ord("a")
             digit == IntOfChar(position[2])
         IN  IF ~digit.ok THEN Raise("ValueError")
             ELSE Ok(<<digit.val - 1, col>>)

\* coords_to_position with the rank written without the + 1
coords_to_position_rank0(row, col) == <<Chr(Ord("a") + col)>> \o Str(row)

coords_to_position(row, col) == <<Chr(Ord("a") + col)>> \o Str(row + 1)

\* the squares of one ray: for i in range(i, 8), until the first square off the board
\* a ray that stops one square early: for i in range(i, 7)
RECURSIVE RayShort(_, _, _, _, _)
RayShort(row, col, dr, dc, i) ==
    IF i >= 7 THEN <<>>
    ELSE LET new_row == row + dr * i
             new_col == col + dc * i
         IN  IF is_valid_position(new_row, new_col)
             THEN <<(<<new_row, new_col>>)>> \o RayShort(row, col, dr, dc, i + 1)
             ELSE <<>>

RECURSIVE Ray(_, _, _, _, _)
Ray(row, col, dr, dc, i) ==
    IF i >= 8 THEN <<>>
    ELSE LET new_row == row + dr * i
             new_col == col + dc * i
         IN  IF is_valid_position(new_row, new_col)
             THEN <<(<<new_row, new_col>>)>> \o Ray(row, col, dr, dc, i + 1)
             ELSE <<>>

\* for dr, dc in directions: the rays, one after the other
RECURSIVE Rays(_, _, _)
Rays(row, col, directions) ==
    IF directions = <<>> THEN <<>>
    ELSE Ray(row, col, Head(directions)[1], Head(directions)[2], 1)
         \o Rays(row, col, Tail(directions))

\* for dr, dc in offsets: the squares one offset away that are on the board
RECURSIVE Steps(_, _, _)
Steps(row, col, offsets) ==
    IF offsets = <<>> THEN <<>>
    ELSE LET new_row == row + Head(offsets)[1]
             new_col == col + Head(offsets)[2]
         IN  (IF is_valid_position(new_row, new_col)
              THEN <<(<<new_row, new_col>>)>> ELSE <<>>)
             \o Steps(row, col, Tail(offsets))

rook_directions == << <<0, 1>>, <<0, -1>>, <<1, 0>>, <<-1, 0>> >>

get_rook_moves(row, col) == Rays(row, col, rook_directions)

bishop_directions == << <<1, 1>>, <<1, -1>>, <<-1, 1>>, <<-1, -1>> >>

\* get_bishop_moves that walks three of the four diagonals
get_bishop_moves_three(row, col) == Rays(row, col, SubSeq(bishop_directions, 1, 3))

get_bishop_moves(row, col) == Rays(row, col, bishop_directions)

\* get_queen_moves that forgets the diagonals
get_queen_moves_rook_only(row, col) == get_rook_moves(row, col)

get_queen_moves(row, col) == get_rook_moves(row, col) \o get_bishop_moves(row, col)

\* the knight's offsets with the last one mistyped, (2, 2) for (2, 1)
knight_moves_typo == << <<-2, -1>>, <<-2, 1>>, <<-1, -2>>, <<-1, 2>>,
                        <<1, -2>>, <<1, 2>>, <<2, -1>>, <<2, 2>> >>

\* the knight's offsets with one of the eight missing
knight_moves_seven == << <<-2, -1>>, <<-2, 1>>, <<-1, -2>>, <<-1, 2>>,
                         <<1, -2>>, <<1, 2>>, <<2, -1>> >>

knight_moves == << <<-2, -1>>, <<-2, 1>>, <<-1, -2>>, <<-1, 2>>,
                   <<1, -2>>, <<1, 2>>, <<2, -1>>, <<2, 1>> >>

get_knight_moves(row, col) == Steps(row, col, knight_moves)

king_directions == << <<-1, -1>>, <<-1, 0>>, <<-1, 1>>,
                      <<0, -1>>,             <<0, 1>>,
                      <<1, -1>>,  <<1, 0>>,  <<1, 1>> >>

get_king_moves(row, col) == Steps(row, col, king_directions)

\* the piece kinds, as Python strings
ROOK == <<"r", "o", "o", "k">>
BISHOP == <<"b", "i", "s", "h", "o", "p">>
QUEEN == <<"q", "u", "e", "e", "n">>
KNIGHT == <<"k", "n", "i", "g", "h", "t">>
KING == <<"k", "i", "n", "g">>

\* [coords_to_position(r, c) for r, c in moves if is_valid_position(r, c)]
OnBoard(m) == is_valid_position(m[1], m[2])

ToPositions(moves) ==
    LET kept == SelectSeq(moves, OnBoard)
    IN  [i \in 1..Len(kept) |-> coords_to_position(kept[i][1], kept[i][2])]

\* get_piece_moves whose fall-through treats an unknown kind as a king
get_piece_moves_default_king(piece_type, position) ==
    LET rc == position_to_coords(position)
    IN  IF ~rc.ok THEN rc
        ELSE LET row == rc.val[1]
                 col == rc.val[2]
                 kind == Lower(piece_type)
                 moves == IF kind = ROOK THEN get_rook_moves(row, col)
                          ELSE IF kind = BISHOP THEN get_bishop_moves(row, col)
                          ELSE IF kind = QUEEN THEN get_queen_moves(row, col)
                          ELSE IF kind = KNIGHT THEN get_knight_moves(row, col)
                          ELSE get_king_moves(row, col)
             IN  Ok(ToPositions(moves))

get_piece_moves(piece_type, position) ==
    LET rc == position_to_coords(position)
    IN  IF ~rc.ok THEN rc
        ELSE LET row == rc.val[1]
                 col == rc.val[2]
                 kind == Lower(piece_type)
                 moves == IF kind = ROOK THEN get_rook_moves(row, col)
                          ELSE IF kind = BISHOP THEN get_bishop_moves(row, col)
                          ELSE IF kind = QUEEN THEN get_queen_moves(row, col)
                          ELSE IF kind = KNIGHT THEN get_knight_moves(row, col)
                          ELSE IF kind = KING THEN get_king_moves(row, col)
                          ELSE <<>>
             IN  Ok(ToPositions(moves))

\* x in list
In(x, list) == \E i \in DOMAIN list : list[i] = x

can_attack(piece_type, from_pos, target_pos) ==
    LET possible_moves == get_piece_moves(piece_type, from_pos)
    IN  IF ~possible_moves.ok THEN possible_moves
        ELSE Ok(In(target_pos, possible_moves.val))

-----------------------------------------------------------------------------
(* class MyChessGame                                                       *)

PIECE_VALUES == [k \in {KNIGHT, BISHOP, ROOK, QUEEN, KING} |->
                    IF k = KNIGHT THEN 3
                    ELSE IF k = BISHOP THEN 3
                    ELSE IF k = ROOK THEN 5
                    ELSE IF k = QUEEN THEN 9
                    ELSE 100]

\* MyChessGame(white_piece, white_pos, black_piece, black_pos)
new_game(white_piece, white_pos, black_piece, black_pos) ==
    [constructed |-> TRUE,
     white_piece |-> Lower(white_piece), white_pos |-> Lower(white_pos),
     black_piece |-> Lower(black_piece), black_pos |-> Lower(black_pos)]

can_white_attack_black(self) == can_attack(self.white_piece, self.white_pos, self.black_pos)

can_black_attack_white(self) == can_attack(self.black_piece, self.black_pos, self.white_pos)

\* f"white {piece} wins", f"black {piece} wins", "draw"
white_wins(piece) == <<"w", "h", "i", "t", "e", " ">> \o piece \o <<" ", "w", "i", "n", "s">>
black_wins(piece) == <<"b", "l", "a", "c", "k", " ">> \o piece \o <<" ", "w", "i", "n", "s">>
draw == <<"d", "r", "a", "w">>

\* determine_winner that compares the material before the attacks
determine_winner_material_first(self) ==
    IF self.white_piece \notin DOMAIN PIECE_VALUES \/ self.black_piece \notin DOMAIN PIECE_VALUES
    THEN Raise("KeyError")
    ELSE LET white_value == PIECE_VALUES[self.white_piece]
             black_value == PIECE_VALUES[self.black_piece]
             white_can_attack == can_white_attack_black(self)
             black_can_attack == can_black_attack_white(self)
         IN  IF ~white_can_attack.ok THEN white_can_attack
             ELSE IF ~black_can_attack.ok THEN black_can_attack
             ELSE IF white_value > black_value THEN Ok(white_wins(self.white_piece))
             ELSE IF black_value > white_value THEN Ok(black_wins(self.black_piece))
             ELSE IF white_can_attack.val /\ ~black_can_attack.val
                  THEN Ok(white_wins(self.white_piece))
             ELSE IF black_can_attack.val /\ ~white_can_attack.val
                  THEN Ok(black_wins(self.black_piece))
             ELSE Ok(draw)

\* determine_winner that gives white the equal material (>= for >)
determine_winner_ties_to_white(self) ==
    IF self.white_piece \notin DOMAIN PIECE_VALUES \/ self.black_piece \notin DOMAIN PIECE_VALUES
    THEN Raise("KeyError")
    ELSE LET white_value == PIECE_VALUES[self.white_piece]
             black_value == PIECE_VALUES[self.black_piece]
             white_can_attack == can_white_attack_black(self)
             black_can_attack == can_black_attack_white(self)
         IN  IF ~white_can_attack.ok THEN white_can_attack
             ELSE IF ~black_can_attack.ok THEN black_can_attack
             ELSE IF white_can_attack.val /\ ~black_can_attack.val
                  THEN Ok(white_wins(self.white_piece))
             ELSE IF black_can_attack.val /\ ~white_can_attack.val
                  THEN Ok(black_wins(self.black_piece))
             ELSE IF white_value >= black_value THEN Ok(white_wins(self.white_piece))
             ELSE IF black_value > white_value THEN Ok(black_wins(self.black_piece))
             ELSE Ok(draw)

\* MyChessGame.determine_winner(self); the look-ups of PIECE_VALUES raise
\* KeyError for a kind that is no key, the attack tests raise what
\* position_to_coords raises
determine_winner(self) ==
    IF self.white_piece \notin DOMAIN PIECE_VALUES \/ self.black_piece \notin DOMAIN PIECE_VALUES
    THEN Raise("KeyError")
    ELSE LET white_value == PIECE_VALUES[self.white_piece]
             black_value == PIECE_VALUES[self.black_piece]
             white_can_attack == can_white_attack_black(self)
             black_can_attack == can_black_attack_white(self)
         IN  IF ~white_can_attack.ok THEN white_can_attack
             ELSE IF ~black_can_attack.ok THEN black_can_attack
             ELSE IF white_can_attack.val /\ ~black_can_attack.val
                  THEN Ok(white_wins(self.white_piece))
             ELSE IF black_can_attack.val /\ ~white_can_attack.val
                  THEN Ok(black_wins(self.black_piece))
             ELSE IF white_value > black_value THEN Ok(white_wins(self.white_piece))
             ELSE IF black_value > white_value THEN Ok(black_wins(self.black_piece))
             ELSE Ok(draw)

-----------------------------------------------------------------------------
(* Values of the state that stand for "not there"                          *)

None == [none |-> TRUE]
NoGame == [constructed |-> FALSE]
Absent == [absent |-> TRUE]
EmptyBoard == << >>

-----------------------------------------------------------------------------
(* class ChessGameGUI: the drag-and-drop handlers                          *)
(*                                                                         *)
(* Each handler is a function of the object's position state               *)
(* [board_pieces, dragging, dragging_piece, drag_start_board_pos] and of   *)
(* the event's coordinates relative to the canvas.  drag_label,            *)
(* drag_start_pos (written, never read) and the redrawing are left out.    *)

\* side of a square of the drawn board, in pixels
SquareSize == 60
\* width and height the canvas is created with
CanvasSize == 480

\* ChessGameGUI.start_drag_from_button(self, event, piece, color)
start_drag_from_button(self, piece, color) ==
    [self EXCEPT !.dragging_piece = [piece |-> piece, color |-> color],
                 !.dragging = TRUE]

\* self.board_pieces[square] = piece
Put(board, square, piece) ==
    [sq \in DOMAIN board \cup {square} |-> IF sq = square THEN piece ELSE board[sq]]

\* del self.board_pieces[square]
Del(board, square) == [sq \in DOMAIN board \ {square} |-> board[sq]]

\* drop_piece without the test 0 <= row < 8 and 0 <= col < 8
drop_piece_unchecked(self, canvas_x, canvas_y) ==
    IF ~self.dragging THEN self
    ELSE LET col == canvas_x \div SquareSize
             row == canvas_y \div SquareSize
             on_canvas == /\ 0 <= canvas_x /\ canvas_x <= CanvasSize
                          /\ 0 <= canvas_y /\ canvas_y <= CanvasSize
         IN  [self EXCEPT
                 !.board_pieces = IF on_canvas
                                  THEN Put(self.board_pieces, <<row, col>>, self.dragging_piece)
                                  ELSE self.board_pieces,
                 !.dragging = FALSE,
                 !.dragging_piece = None]

\* ChessGameGUI.drop_piece(self, event), canvas_x and canvas_y being the
\* event's root coordinates less those of the canvas
drop_piece(self, canvas_x, canvas_y) ==
    IF ~self.dragging THEN self
    ELSE LET col == canvas_x \div SquareSize
             row == canvas_y \div SquareSize
             on_canvas == /\ 0 <= canvas_x /\ canvas_x <= CanvasSize
                          /\ 0 <= canvas_y /\ canvas_y <= CanvasSize
             on_board == 0 <= row /\ row < 8 /\ 0 <= col /\ col < 8
         IN  [self EXCEPT
                 !.board_pieces = IF on_canvas /\ on_board
                                  THEN Put(self.board_pieces, <<row, col>>, self.dragging_piece)
                                  ELSE self.board_pieces,
                 !.dragging = FALSE,
                 !.dragging_piece = None]

\* ChessGameGUI.on_canvas_click(self, event)
on_canvas_click(self, x, y) ==
    LET col == x \div SquareSize
        row == y \div SquareSize
    IN  IF 0 <= row /\ row < 8 /\ 0 <= col /\ col < 8
           /\ <<row, col>> \in DOMAIN self.board_pieces
        THEN [self EXCEPT
                 !.dragging_piece = self.board_pieces[<<row, col>>],
                 !.drag_start_board_pos = <<row, col>>,
                 !.dragging = TRUE,
                 !.board_pieces = Del(self.board_pieces, <<row, col>>)]
        ELSE self

\* on_release that drops the piece released outside the board
on_release_forgets(self, x, y) ==
    IF ~self.dragging THEN self
    ELSE LET col == x \div SquareSize
             row == y \div SquareSize
         IN  [self EXCEPT
                 !.board_pieces =
                     IF 0 <= row /\ row < 8 /\ 0 <= col /\ col < 8
                     THEN Put(self.board_pieces, <<row, col>>, self.dragging_piece)
                     ELSE self.board_pieces,
                 !.drag_start_board_pos = Absent,
                 !.dragging = FALSE,
                 !.dragging_piece = None]

\* ChessGameGUI.on_release(self, event)
on_release(self, x, y) ==
    IF ~self.dragging THEN self
    ELSE LET col == x \div SquareSize
             row == y \div SquareSize
         IN  [self EXCEPT
                 !.board_pieces =
                     IF 0 <= row /\ row < 8 /\ 0 <= col /\ col < 8
                     THEN Put(self.board_pieces, <<row, col>>, self.dragging_piece)
                     ELSE IF self.drag_start_board_pos # Absent
                     THEN Put(self.board_pieces, self.drag_start_board_pos,
                              self.dragging_piece)
                     ELSE self.board_pieces,
                 !.drag_start_board_pos = Absent,
                 !.dragging = FALSE,
                 !.dragging_piece = None]

\* ChessGameGUI.clear_board(self)
clear_board(self) == [self EXCEPT !.board_pieces = EmptyBoard]

-----------------------------------------------------------------------------
(* class ChessGameGUI: the position analysis                               *)
(*                                                                         *)
(* Chess_game.py carries its own copy of class Chess, line for line the    *)
(* one of ChessGame_Backend.py; the operators above model both.            *)
(* board_pieces is a function from the occupied squares (row, col) to      *)
(* records [piece, color].  The lists pieces_by_color[...] are modelled as *)
(* sets: their order (the insertion order of the dict) decides the order   *)
(* of the report's lines only, not the counts and sums.                    *)

\* pieces_by_color[color]: the pieces of one side with their algebraic positions
pieces_by_color(board, color) ==
    {[piece |-> board[sq].piece,
      position |-> coords_to_position(sq[1], sq[2]),
      coords |-> sq] : sq \in {q \in DOMAIN board : board[q].color = color}}

\* the number of pairs (attacker, defender) the nested loops count
count_attacks(attackers, defenders) ==
    Cardinality({pair \in attackers \X defenders :
                    can_attack(pair[1].piece, pair[1].position, pair[2].position).val})

\* sum(PIECE_VALUES[p['piece']] for p in pieces)
RECURSIVE sum_values(_)
sum_values(pieces) ==
    IF pieces = {} THEN 0
    ELSE LET p == CHOOSE x \in pieces : TRUE
         IN  PIECE_VALUES[p.piece] + sum_values(pieces \ {p})

WHITE_LIKELY == "WHITE IS LIKELY TO WIN"
BLACK_LIKELY == "BLACK IS LIKELY TO WIN"
ROUGHLY_EQUAL == "POSITION IS ROUGHLY EQUAL"

\* the winner prediction with both comparisons strict
prediction_strict(white_value, black_value, white_attacks, black_attacks) ==
    IF white_value > black_value /\ white_attacks > black_attacks THEN WHITE_LIKELY
    ELSE IF black_value > white_value /\ black_attacks > white_attacks THEN BLACK_LIKELY
    ELSE ROUGHLY_EQUAL

\* the last line of the report: the winner prediction
prediction(white_value, black_value, white_attacks, black_attacks) ==
    IF white_value > black_value /\ white_attacks >= black_attacks THEN WHITE_LIKELY
    ELSE IF black_value > white_value /\ black_attacks >= white_attacks THEN BLACK_LIKELY
    ELSE ROUGHLY_EQUAL

\* what analyze_position writes to analysis_text, as the numbers and the
\* verdicts its lines state
analyze_position(board) ==
    LET white == pieces_by_color(board, "white")
        black == pieces_by_color(board, "black")
        white_attacks == count_attacks(white, black)
        black_attacks == count_attacks(black, white)
        white_value == sum_values(white)
        black_value == sum_values(black)
    IN  [white_pieces |-> Cardinality(white),
         black_pieces |-> Cardinality(black),
         white_attacks |-> white_attacks,
         black_attacks |-> black_attacks,
         white_value |-> white_value,
         black_value |-> black_value,
         tactical |-> IF white_attacks > black_attacks THEN "white"
                      ELSE IF black_attacks > white_attacks THEN "black"
                      ELSE "nobody",
         prediction |-> prediction(white_value, black_value, white_attacks, black_attacks)]

-----------------------------------------------------------------------------
(* Idle values of the parts of the state a specification does not use      *)

ChessIdle == calls = <<>>
GameIdle == game = NoGame /\ verdict = None
GuiIdle ==
    /\ board_pieces = EmptyBoard
    /\ dragging = FALSE
    /\ dragging_piece = None
    /\ drag_start_board_pos = Absent
    /\ analysis = None

Last(s) == s[Len(s)]

-----------------------------------------------------------------------------
(* SpecConv: the two conversions, applied to inputs and to each other's    *)
(* results                                                                 *)

\* the characters the algebraic strings handed in are made of
InputChars == {"a", "b", "c", "d", "e", "f", "g", "h", "i", "A", "H", "GRAVE",
               "0", "1", "2", "3", "4", "5", "6", "7", "8", "9", "-", " "}

InputStrings == UNION {[1..n -> InputChars] : n \in 0..MaxLen}

InputCoords == (0 - CoordSlack)..(7 + CoordSlack)

\* Chess.position_to_coords(position), on an input or on the string just returned
PositionToCoords ==
    /\ Len(calls) < MaxCalls
    /\ \E position \in IF calls = <<>> THEN InputStrings
                       ELSE IF Last(calls).fn = "coords_to_position"
                            THEN {Last(calls).ret.val} ELSE {} :
          calls' = Append(calls, [fn |-> "position_to_coords",
                                  args |-> <<position>>,
                                  ret |-> position_to_coords(position)])
    /\ UNCHANGED <<game, verdict, board_pieces, dragging, dragging_piece,
                   drag_start_board_pos, analysis>>

\* Chess.coords_to_position(row, col), on an input or on the pair just returned
CoordsToPosition ==
    /\ Len(calls) < MaxCalls
    /\ \E rc \in IF calls = <<>> THEN InputCoords \X InputCoords
                 ELSE IF Last(calls).fn = "position_to_coords" /\ Last(calls).ret.ok
                      THEN {Last(calls).ret.val} ELSE {} :
          calls' = Append(calls, [fn |-> "coords_to_position",
                                  args |-> rc,
                                  ret |-> Ok(coords_to_position(rc[1], rc[2]))])
    /\ UNCHANGED <<game, verdict, board_pieces, dragging, dragging_piece,
                   drag_start_board_pos, analysis>>

InitConv == ChessIdle /\ GameIdle /\ GuiIdle

NextConv == PositionToCoords \/ CoordsToPosition

SpecConv == InitConv /\ [][NextConv]_vars

-----------------------------------------------------------------------------
(* SpecMoves: one call of get_piece_moves or of can_attack, on a piece     *)
(* kind and squares of the board (both are pure: a run makes one call)     *)

PAWN == <<"p", "a", "w", "n">>

\* the piece kinds handed in: the five supported ones, one of them also
\* capitalised, and kinds the engine does not know
InputKinds == {ROOK, BISHOP, QUEEN, KNIGHT, KING,
               <<"Q", "u", "e", "e", "n">>, PAWN, <<>>}

FileLetters == <<"a", "b", "c", "d", "e", "f", "g", "h">>
UpperFileLetters == <<"A", "E", "H">>
RankDigits == <<"1", "2", "3", "4", "5", "6", "7", "8">>

\* the algebraic strings handed in: the 64 squares, and those of three files
\* also with the file letter in upper case
InputPositions ==
    {<<f, r>> : f \in {FileLetters[i] : i \in 1..8} \cup {UpperFileLetters[i] : i \in 1..3},
                r \in {RankDigits[i] : i \in 1..8}}

\* Chess.get_piece_moves(piece_type, position)
GetPieceMoves ==
    /\ calls = <<>>
    /\ \E piece_type \in InputKinds, position \in InputPositions :
          calls' = <<[fn |-> "get_piece_moves",
                      args |-> <<piece_type, position>>,
                      ret |-> get_piece_moves(piece_type, position)]>>
    /\ UNCHANGED <<game, verdict, board_pieces, dragging, dragging_piece,
                   drag_start_board_pos, analysis>>

\* Chess.can_attack(piece_type, from_pos, target_pos)
CanAttack ==
    /\ calls = <<>>
    /\ \E piece_type \in InputKinds, from_pos \in InputPositions,
          target_pos \in InputPositions :
          calls' = <<[fn |-> "can_attack",
                      args |-> <<piece_type, from_pos, target_pos>>,
                      ret |-> can_attack(piece_type, from_pos, target_pos)]>>
    /\ UNCHANGED <<game, verdict, board_pieces, dragging, dragging_piece,
                   drag_start_board_pos, analysis>>

InitMoves == ChessIdle /\ GameIdle /\ GuiIdle

NextMoves == GetPieceMoves \/ CanAttack

SpecMoves == InitMoves /\ [][NextMoves]_vars

-----------------------------------------------------------------------------
(* SpecGame: one two-piece game is constructed and its winner determined   *)

\* the kinds a game is constructed with: the supported ones, and the
\* capitalised ones of the example games
GameKinds == {ROOK, BISHOP, QUEEN, KNIGHT, KING,
              <<"Q", "u", "e", "e", "n">>, <<"R", "o", "o", "k">>,
              <<"K", "n", "i", "g", "h", "t">>, <<"B", "i", "s", "h", "o", "p">>}

\* the squares a game is constructed with: the 64 squares, those of file e
\* also with the file letter in upper case
GamePositions ==
    {<<f, r>> : f \in {FileLetters[i] : i \in 1..8} \cup {"E"},
                r \in {RankDigits[i] : i \in 1..8}}

\* game = MyChessGame(white_piece, white_pos, black_piece, black_pos)
NewGame ==
    /\ game = NoGame
    /\ \E white_piece \in GameKinds, white_pos \in GamePositions,
          black_piece \in GameKinds, black_pos \in GamePositions :
          game' = new_game(white_piece, white_pos, black_piece, black_pos)
    /\ UNCHANGED <<calls, verdict, board_pieces, dragging, dragging_piece,
                   drag_start_board_pos, analysis>>

\* game.determine_winner()
DetermineWinner ==
    /\ game # NoGame
    /\ verdict = None
    /\ verdict' = determine_winner(game)
    /\ UNCHANGED <<calls, game, board_pieces, dragging, dragging_piece,
                   drag_start_board_pos, analysis>>

InitGame == ChessIdle /\ GameIdle /\ GuiIdle

NextGame == NewGame \/ DetermineWinner

SpecGame == InitGame /\ [][NextGame]_vars

-----------------------------------------------------------------------------
(* SpecAnalyze: the Analyze Position button is pressed once on a position  *)
(* that has been set up on the board                                       *)

\* the pieces of the piece panel
PanelPieces == [piece : {QUEEN, ROOK, BISHOP, KNIGHT, KING}, color : {"white", "black"}]

\* the squares the analysed positions occupy: a1, b1, c2, b3
AnalysedSquares == {<<0, 0>>, <<0, 1>>, <<1, 2>>, <<2, 1>>}

\* the positions analysed: at most MaxPieces panel pieces on those squares
AnalysedBoards ==
    UNION {[occupied -> PanelPieces] :
              occupied \in {S \in SUBSET AnalysedSquares : Cardinality(S) <= MaxPieces}}

\* ChessGameGUI.analyze_position(self): with fewer than 2 pieces a message
\* box is shown and the report is left as it is
AnalyzePosition ==
    /\ analysis = None
    /\ analysis' = IF Cardinality(DOMAIN board_pieces) < 2 THEN analysis
                   ELSE analyze_position(board_pieces)
    /\ UNCHANGED <<calls, game, verdict, board_pieces, dragging, dragging_piece,
                   drag_start_board_pos>>

InitAnalyze ==
    /\ ChessIdle /\ GameIdle
    /\ board_pieces \in AnalysedBoards
    /\ dragging = FALSE
    /\ dragging_piece = None
    /\ drag_start_board_pos = Absent
    /\ analysis = None

NextAnalyze == AnalyzePosition

SpecAnalyze == InitAnalyze /\ [][NextAnalyze]_vars

-----------------------------------------------------------------------------
(* Spec: the GUI after construction, its handlers run by mouse events in   *)
(* any order                                                               *)

\* the position state of the ChessGameGUI object
Self ==
    [board_pieces |-> board_pieces,
     dragging |-> dragging,
     dragging_piece |-> dragging_piece,
     drag_start_board_pos |-> drag_start_board_pos]

\* the handler leaves the object in state s
Becomes(s) ==
    /\ board_pieces' = s.board_pieces
    /\ dragging' = s.dragging
    /\ dragging_piece' = s.dragging_piece
    /\ drag_start_board_pos' = s.drag_start_board_pos
    /\ UNCHANGED <<calls, game, verdict, analysis>>

\* where the mouse events happen, (x, y) relative to the canvas: on the
\* squares (row 0, col 0), (row 1, col 2) and (row 7, col 7), left of the
\* board, and on the canvas just below the board's last row
EventPoints == {<<0, 0>>, <<150, 90>>, <<479, 479>>, <<-1, 30>>, <<30, 480>>}

\* <Button-1> on a button of the piece panel
StartDragFromButton ==
    \E p \in PanelPieces : Becomes(start_drag_from_button(Self, p.piece, p.color))

\* <ButtonRelease-1> delivered to a button of the piece panel
DropPiece ==
    \E pt \in EventPoints : Becomes(drop_piece(Self, pt[1], pt[2]))

\* <Button-1> on the canvas
OnCanvasClick ==
    \E pt \in EventPoints : Becomes(on_canvas_click(Self, pt[1], pt[2]))

\* <ButtonRelease-1> delivered to the canvas
OnRelease ==
    \E pt \in EventPoints : Becomes(on_release(Self, pt[1], pt[2]))

\* the Clear Board button
ClearBoard == Becomes(clear_board(Self))

Init == ChessIdle /\ GameIdle /\ GuiIdle

Next == StartDragFromButton \/ DropPiece \/ OnCanvasClick \/ OnRelease \/ ClearBoard

Spec == Init /\ [][Next]_vars

-----------------------------------------------------------------------------
(* Reference geometry the claims are stated against: squares as pairs      *)
(* (row, col), named by the tables of file letters and rank digits         *)

Board == (0..7) \X (0..7)

\* the algebraic name of square (row, col)
Alg(row, col) == <<FileLetters[col + 1], RankDigits[row + 1]>>

AlgSet(squares) == {Alg(sq[1], sq[2]) : sq \in squares}

ToSet(list) == {list[i] : i \in DOMAIN list}

Abs(n) == IF n < 0 THEN 0 - n ELSE n

SameLine(s, t) == s # t /\ (s[1] = t[1] \/ s[2] = t[2])

SameDiagonal(s, t) == s # t /\ Abs(s[1] - t[1]) = Abs(s[2] - t[2])

KnightJump(s, t) == {Abs(s[1] - t[1]), Abs(s[2] - t[2])} = {1, 2}

KingStep(s, t) == s # t /\ Abs(s[1] - t[1]) <= 1 /\ Abs(s[2] - t[2]) <= 1

\* the square each algebraic name of the board names
SquareTable == [p \in AlgSet(Board) |-> CHOOSE sq \in Board : Alg(sq[1], sq[2]) = p]

\* the square an algebraic name of the board names
SquareOf(p) == SquareTable[p]

\* the last call is get_piece_moves(kind, s) for a square s of the board
MovesCalled(kind) ==
    /\ calls # <<>>
    /\ Last(calls).fn = "get_piece_moves"
    /\ Last(calls).args[1] = kind
    /\ Last(calls).args[2] \in AlgSet(Board)

\* the square the last call was made for
From == SquareOf(Last(calls).args[2])

\* the last call is fn(args)
Called(fn, args) == calls # <<>> /\ Last(calls).fn = fn /\ Last(calls).args = args

\* the last call returned a list of n algebraic strings naming exactly `squares`
Returned(n, squares) ==
    /\ Last(calls).ret.ok
    /\ Len(Last(calls).ret.val) = n
    /\ ToSet(Last(calls).ret.val) = AlgSet(squares)

-----------------------------------------------------------------------------
(* Claims about the conversions (SpecConv)                                 *)

\* the 64 algebraic positions, file 'a'..'h' and rank '1'..'8'
ValidPositions == AlgSet(Board)

\* C1: the conversions are inverse to each other on the board: for every
\* square (row, col) of 0..7 x 0..7, position_to_coords applied to
\* coords_to_position(row, col) returns (row, col); and for every algebraic
\* position p with file 'a'..'h' and rank '1'..'8', position_to_coords(p)
\* returns a pair and coords_to_position applied to it returns p.
C1_RoundTrip ==
    /\ (Len(calls) >= 1 /\ calls[1].fn = "position_to_coords"
          /\ calls[1].args[1] \in ValidPositions)
       => (calls[1].ret.ok /\ calls[1].ret.val \in Board)
    /\ (Len(calls) >= 2 /\ calls[1].fn = "coords_to_position"
          /\ calls[1].args \in Board /\ calls[2].fn = "position_to_coords")
       => calls[2].ret = Ok(calls[1].args)
    /\ (Len(calls) >= 2 /\ calls[1].fn = "position_to_coords"
          /\ calls[1].args[1] \in ValidPositions /\ calls[2].fn = "coords_to_position")
       => calls[2].ret = Ok(calls[1].args[1])

\* C1 witness: square (3, 4) was converted to a string and the string back
C1_Witness ==
    /\ Len(calls) = 2
    /\ calls[1].fn = "coords_to_position" /\ calls[1].args = <<3, 4>>
    /\ calls[1].ret = Ok(<<"e", "4">>)
    /\ calls[2].fn = "position_to_coords" /\ calls[2].ret = Ok(<<3, 4>>)

\* a string that is no algebraic position: its length is not 2, or its file
\* character is outside 'a'..'h' in either case, or its rank character is
\* outside '1'..'8'
Malformed(p) ==
    \/ Len(p) # 2
    \/ ~(\E i \in 1..8 : p[1] = FileLetters[i] \/ p[1] = Chr(Ord(FileLetters[i]) - 32))
    \/ ~(\E i \in 1..8 : p[2] = RankDigits[i])

\* C2: position_to_coords raises on every malformed algebraic string and
\* never returns coordinates for it.
C2_MalformedRejected ==
    \A i \in DOMAIN calls :
        (calls[i].fn = "position_to_coords" /\ Malformed(calls[i].args[1]))
        => ~calls[i].ret.ok

-----------------------------------------------------------------------------
(* Claims about the move generators (SpecMoves)                            *)

\* C6: get_piece_moves('rook', s) returns exactly 14 squares for every one
\* of the 64 squares s: the squares sharing the rank or the file of s, s
\* itself excluded.
C6_RookFourteen ==
    MovesCalled(ROOK) => Returned(14, {t \in Board : SameLine(From, t)})

\* C6 witness: the rook's moves from the corner a1 and their number
C6_Witness ==
    /\ Called("get_piece_moves", <<ROOK, <<"a", "1">>>>)
    /\ Len(Last(calls).ret.val) = 14
    /\ In(<<"a", "8">>, Last(calls).ret.val)
    /\ In(<<"h", "1">>, Last(calls).ret.val)

\* C7: get_piece_moves('bishop', s) returns, for every square s, exactly the
\* squares on the two diagonals through s up to the board edge, s excluded,
\* each once: 7 squares from a1 and 13 squares from d4.
C7_BishopDiagonals ==
    /\ MovesCalled(BISHOP)
       => Returned(Cardinality({t \in Board : SameDiagonal(From, t)}),
                   {t \in Board : SameDiagonal(From, t)})
    /\ Called("get_piece_moves", <<BISHOP, <<"a", "1">>>>)
       => Len(Last(calls).ret.val) = 7
    /\ Called("get_piece_moves", <<BISHOP, <<"d", "4">>>>)
       => Len(Last(calls).ret.val) = 13

\* C7 witness: the bishop's 13 moves from d4, reaching a1, h8, a7 and g1
C7_Witness ==
    /\ Called("get_piece_moves", <<BISHOP, <<"d", "4">>>>)
    /\ Len(Last(calls).ret.val) = 13
    /\ {<<"a", "1">>, <<"h", "8">>, <<"a", "7">>, <<"g", "1">>}
          \subseteq ToSet(Last(calls).ret.val)

\* C8: for the knight and the king get_piece_moves returns exactly the
\* squares of the board among the 8 offsets of the kind, each once: a knight
\* has 2 moves from a1 and 8 from d4, a king 3 from a1 and 8 from d4, and no
\* returned square is off the board.
C8_KnightKingOffsets ==
    /\ MovesCalled(KNIGHT)
       => Returned(Cardinality({t \in Board : KnightJump(From, t)}),
                   {t \in Board : KnightJump(From, t)})
    /\ MovesCalled(KING)
       => Returned(Cardinality({t \in Board : KingStep(From, t)}),
                   {t \in Board : KingStep(From, t)})
    /\ Called("get_piece_moves", <<KNIGHT, <<"a", "1">>>>) => Len(Last(calls).ret.val) = 2
    /\ Called("get_piece_moves", <<KNIGHT, <<"d", "4">>>>) => Len(Last(calls).ret.val) = 8
    /\ Called("get_piece_moves", <<KING, <<"a", "1">>>>) => Len(Last(calls).ret.val) = 3
    /\ Called("get_piece_moves", <<KING, <<"d", "4">>>>) => Len(Last(calls).ret.val) = 8
    /\ (MovesCalled(KNIGHT) \/ MovesCalled(KING))
       => ToSet(Last(calls).ret.val) \subseteq ValidPositions

\* C8 witness: the knight's two moves from the corner a1
C8_Witness ==
    /\ Called("get_piece_moves", <<KNIGHT, <<"a", "1">>>>)
    /\ ToSet(Last(calls).ret.val) = {<<"b", "3">>, <<"c", "2">>}

\* C9: for every square s the set of squares get_piece_moves('queen', s)
\* returns is the union of those it returns for 'rook' and for 'bishop'.
C9_QueenUnion ==
    MovesCalled(QUEEN)
    => /\ Last(calls).ret.ok
       /\ ToSet(Last(calls).ret.val)
            = ToSet(get_piece_moves(ROOK, Last(calls).args[2]).val)
              \cup ToSet(get_piece_moves(BISHOP, Last(calls).args[2]).val)
       /\ ToSet(Last(calls).ret.val)
            = AlgSet({t \in Board : SameLine(From, t) \/ SameDiagonal(From, t)})

\* C9 witness: the queen's moves from d4 hold a rook square and a bishop square
C9_Witness ==
    /\ Called("get_piece_moves", <<QUEEN, <<"d", "4">>>>)
    /\ Len(Last(calls).ret.val) = 27
    /\ In(<<"d", "8">>, Last(calls).ret.val)
    /\ In(<<"h", "8">>, Last(calls).ret.val)

\* the kinds handed in that are none of rook, bishop, queen, knight, king
UnsupportedKinds == {k \in InputKinds : Lower(k) \notin {ROOK, BISHOP, QUEEN, KNIGHT, KING}}

\* C10: for a piece kind outside the five supported ones and any square of
\* the board, get_piece_moves returns the empty list without raising, and
\* can_attack returns False for every target.
C10_UnknownKindEmpty ==
    \A k \in UnsupportedKinds :
        /\ (calls # <<>> /\ Last(calls).fn = "get_piece_moves" /\ Last(calls).args[1] = k)
           => Last(calls).ret = Ok(<<>>)
        /\ (calls # <<>> /\ Last(calls).fn = "can_attack" /\ Last(calls).args[1] = k)
           => Last(calls).ret = Ok(FALSE)

\* C10 witness: can_attack('pawn', 'e2', 'e3') was called and returned False
C10_Witness ==
    /\ Called("can_attack", <<PAWN, <<"e", "2">>, <<"e", "3">>>>)
    /\ Last(calls).ret = Ok(FALSE)

-----------------------------------------------------------------------------
(* Claims about the two-piece game (SpecGame)                              *)

\* whether a piece of `kind` on square s attacks square t on the empty board
RefAttacks(kind, s, t) ==
    IF kind = ROOK THEN SameLine(s, t)
    ELSE IF kind = BISHOP THEN SameDiagonal(s, t)
    ELSE IF kind = QUEEN THEN SameLine(s, t) \/ SameDiagonal(s, t)
    ELSE IF kind = KNIGHT THEN KnightJump(s, t)
    ELSE kind = KING /\ KingStep(s, t)

\* the material values of the specification
RefValue(kind) ==
    IF kind = KNIGHT \/ kind = BISHOP THEN 3
    ELSE IF kind = ROOK THEN 5
    ELSE IF kind = QUEEN THEN 9
    ELSE 100

\* the winner of `game` has been determined
Determined == game # NoGame /\ verdict # None

WhiteAttacks == RefAttacks(game.white_piece, SquareOf(game.white_pos), SquareOf(game.black_pos))
BlackAttacks == RefAttacks(game.black_piece, SquareOf(game.black_pos), SquareOf(game.white_pos))

\* C3: in every two-piece game in which exactly one side can attack the
\* other's square, determine_winner returns that side as the winner,
\* whatever the material values of the two pieces.
C3_AsymmetricAttackWins ==
    Determined =>
        /\ (WhiteAttacks /\ ~BlackAttacks) => verdict = Ok(white_wins(game.white_piece))
        /\ (BlackAttacks /\ ~WhiteAttacks) => verdict = Ok(black_wins(game.black_piece))

\* C3 witness: the black knight on f6 attacks the white queen on e4, which
\* does not attack it, and wins against the higher material
C3_Witness ==
    /\ Determined
    /\ game.white_piece = QUEEN /\ game.white_pos = <<"e", "4">>
    /\ game.black_piece = KNIGHT /\ game.black_pos = <<"f", "6">>
    /\ BlackAttacks /\ ~WhiteAttacks
    /\ verdict = Ok(black_wins(KNIGHT))

\* C4: in every two-piece game in which both sides can attack each other or
\* neither can, determine_winner returns the side whose piece has the
\* strictly higher material value (knight 3, bishop 3, rook 5, queen 9,
\* king 100), and returns draw exactly when the two values are equal.
C4_MaterialDecides ==
    (Determined /\ (WhiteAttacks <=> BlackAttacks)) =>
        /\ RefValue(game.white_piece) > RefValue(game.black_piece)
           => verdict = Ok(white_wins(game.white_piece))
        /\ RefValue(game.black_piece) > RefValue(game.white_piece)
           => verdict = Ok(black_wins(game.black_piece))
        /\ verdict = Ok(draw) <=> RefValue(game.white_piece) = RefValue(game.black_piece)

\* C4 witness: knight on b1 and bishop on c8 do not attack each other and
\* have the same value: draw
C4_Witness ==
    /\ Determined
    /\ game.white_piece = KNIGHT /\ game.white_pos = <<"b", "1">>
    /\ game.black_piece = BISHOP /\ game.black_pos = <<"c", "8">>
    /\ ~WhiteAttacks /\ ~BlackAttacks
    /\ verdict = Ok(draw)

-----------------------------------------------------------------------------
(* Claims about the position analysis (SpecAnalyze)                        *)

\* the occupied squares of one side
SquaresOf(color) == {sq \in DOMAIN board_pieces : board_pieces[sq].color = color}

\* the cross-side attacks in favour of `color`: pairs (attacker, defender)
AttacksOf(color) ==
    Cardinality({pair \in SquaresOf(color) \X (DOMAIN board_pieces \ SquaresOf(color)) :
                    RefAttacks(board_pieces[pair[1]].piece, pair[1], pair[2])})

RECURSIVE RefSum(_)
RefSum(squares) ==
    IF squares = {} THEN 0
    ELSE LET sq == CHOOSE x \in squares : TRUE
         IN  RefValue(board_pieces[sq].piece) + RefSum(squares \ {sq})

\* the total material of one side
MaterialOf(color) == RefSum(SquaresOf(color))

\* C5 as stated: a side is reported as the likely winner when it has more
\* cross-side attacks in its favour than the other side and its total
\* material is greater than or equal to the other side's; in every other
\* case the result is roughly equal.
C5_MoreAttacksDecide ==
    analysis # None =>
        analysis.prediction =
            IF AttacksOf("white") > AttacksOf("black")
               /\ MaterialOf("white") >= MaterialOf("black") THEN WHITE_LIKELY
            ELSE IF AttacksOf("black") > AttacksOf("white")
                    /\ MaterialOf("black") >= MaterialOf("white") THEN BLACK_LIKELY
            ELSE ROUGHLY_EQUAL

\* C5 amended: a side is reported as the likely winner when its total
\* material is strictly greater than the other side's and it has at least as
\* many cross-side attacks in its favour as the other side; in every other
\* analysed position the result is roughly equal; with fewer than two pieces
\* on the board no report is made.
C5_MoreMaterialDecides ==
    /\ analysis # None =>
          /\ Cardinality(DOMAIN board_pieces) >= 2
          /\ analysis.prediction =
                IF MaterialOf("white") > MaterialOf("black")
                   /\ AttacksOf("white") >= AttacksOf("black") THEN WHITE_LIKELY
                ELSE IF MaterialOf("black") > MaterialOf("white")
                        /\ AttacksOf("black") >= AttacksOf("white") THEN BLACK_LIKELY
                ELSE ROUGHLY_EQUAL

\* C5 witness: white queen a1, black knight b1, black bishop b3: white has
\* 9 against 6 and one attack against none, and is predicted to win
C5_Witness ==
    /\ analysis # None
    /\ board_pieces = (<<0, 0>> :> [piece |-> QUEEN, color |-> "white"])
                      @@ (<<0, 1>> :> [piece |-> KNIGHT, color |-> "black"])
                      @@ (<<2, 1>> :> [piece |-> BISHOP, color |-> "black"])
    /\ analysis.white_value = 9 /\ analysis.black_value = 6
    /\ analysis.white_attacks = 1 /\ analysis.black_attacks = 0
    /\ analysis.prediction = WHITE_LIKELY

-----------------------------------------------------------------------------
(* Claims about can_attack (SpecMoves)                                     *)

\* the last call is can_attack(kind, from_pos, target_pos) for one of the
\* five supported kinds, written in lower case
AttackCalled ==
    /\ calls # <<>>
    /\ Last(calls).fn = "can_attack"
    /\ Last(calls).args[1] \in {ROOK, BISHOP, QUEEN, KNIGHT, KING}

\* the square an algebraic string names, its file letter in either case
SquareNamed(p) == SquareOf(<<LowerChar(p[1]), p[2]>>)

\* C11: can_attack(kind, from_pos, target_pos) is true iff the square named
\* by target_pos is among the moves of kind from the square named by
\* from_pos, whether the file letters of target_pos and from_pos are written
\* in lower or in upper case.
C11_AttackIffMemberAnyCase ==
    AttackCalled =>
        Last(calls).ret = Ok(RefAttacks(Last(calls).args[1],
                                        SquareNamed(Last(calls).args[2]),
                                        SquareNamed(Last(calls).args[3])))

\* C13: the attack geometry is symmetric for every supported kind: for every
\* kind k of rook, bishop, queen, knight, king and every pair of squares s
\* and t of the board, can_attack(k, s, t) is true iff can_attack(k, t, s)
\* is true, and can_attack(k, s, s) is false.
C13_AttackSymmetric ==
    (AttackCalled /\ Last(calls).args[2] \in ValidPositions
                  /\ Last(calls).args[3] \in ValidPositions) =>
        /\ Last(calls).ret.ok
        /\ Last(calls).ret = can_attack(Last(calls).args[1], Last(calls).args[3],
                                        Last(calls).args[2])
        /\ Last(calls).args[2] = Last(calls).args[3] => Last(calls).ret = Ok(FALSE)

\* C13 witness: the knight on f6 attacks e4, as the knight on e4 attacks f6
C13_Witness ==
    /\ Called("can_attack", <<KNIGHT, <<"f", "6">>, <<"e", "4">>>>)
    /\ Last(calls).ret = Ok(TRUE)
    /\ can_attack(KNIGHT, <<"e", "4">>, <<"f", "6">>) = Ok(TRUE)

-----------------------------------------------------------------------------
(* Claims about the example games (SpecGame)                               *)

\* the game holds these two pieces on these two squares
GameIs(white_piece, white_pos, black_piece, black_pos) ==
    /\ game # NoGame
    /\ game.white_piece = white_piece /\ game.white_pos = white_pos
    /\ game.black_piece = black_piece /\ game.black_pos = black_pos

\* C12: the three example games give these verdicts: queen e4 against
\* knight f6 is won by the black knight, which attacks e4 while the queen
\* does not attack f6; rook a1 against bishop h8 is won by the black bishop,
\* which attacks a1 while the rook does not attack h8; knight b1 against
\* bishop c8 is a draw, neither attacking and the material being 3 against 3.
C12_ExampleGames ==
    /\ GameIs(QUEEN, <<"e", "4">>, KNIGHT, <<"f", "6">>) =>
          /\ can_black_attack_white(game) = Ok(TRUE)
          /\ can_white_attack_black(game) = Ok(FALSE)
          /\ verdict # None => verdict = Ok(black_wins(KNIGHT))
    /\ GameIs(ROOK, <<"a", "1">>, BISHOP, <<"h", "8">>) =>
          /\ can_black_attack_white(game) = Ok(TRUE)
          /\ can_white_attack_black(game) = Ok(FALSE)
          /\ verdict # None => verdict = Ok(black_wins(BISHOP))
    /\ GameIs(KNIGHT, <<"b", "1">>, BISHOP, <<"c", "8">>) =>
          /\ can_black_attack_white(game) = Ok(FALSE)
          /\ can_white_attack_black(game) = Ok(FALSE)
          /\ PIECE_VALUES[game.white_piece] = 3 /\ PIECE_VALUES[game.black_piece] = 3
          /\ verdict # None => verdict = Ok(draw)

\* C12 witness: the winner of rook a1 against bishop h8 has been determined
C12_Witness ==
    /\ GameIs(ROOK, <<"a", "1">>, BISHOP, <<"h", "8">>)
    /\ verdict = Ok(black_wins(BISHOP))

-----------------------------------------------------------------------------
(* Claims about the drag-and-drop handlers (Spec)                          *)

\* the square drawn under the point (x, y) of the canvas
SquareAt(pt) == <<pt[2] \div 60, pt[1] \div 60>>

\* the points of the events that lie on the 8 x 8 board, and those that do not
BoardPoints == {pt \in EventPoints : SquareAt(pt) \in Board}
OutsidePoints == EventPoints \ BoardPoints

\* an occupant is a pair of a supported kind and a side
IsOccupant(piece) ==
    /\ DOMAIN piece = {"piece", "color"}
    /\ piece.piece \in {ROOK, BISHOP, QUEEN, KNIGHT, KING}
    /\ piece.color \in {"white", "black"}

\* board `after` is board `before` with `piece` on `square` and nothing else changed
Overwritten(before, after, square, piece) ==
    /\ DOMAIN after = DOMAIN before \cup {square}
    /\ after[square] = piece
    /\ \A sq \in DOMAIN before \ {square} : after[sq] = before[sq]

\* C14: after any sequence of drop_piece, on_canvas_click, on_release and
\* clear_board events (and of drags started from the piece panel), every key
\* of board_pieces is a square with row and col in 0..7, holding one
\* occupant, which is a (supported kind, white or black) pair; and placing
\* the dragged piece on a square, occupied or not, makes it the occupant of
\* that square and changes no other square.
C14_BoardWellFormed ==
    /\ DOMAIN board_pieces \subseteq Board
    /\ \A sq \in DOMAIN board_pieces : IsOccupant(board_pieces[sq])
    /\ dragging =>
          \A pt \in BoardPoints :
              /\ Overwritten(board_pieces, on_release(Self, pt[1], pt[2]).board_pieces,
                             SquareAt(pt), dragging_piece)
              /\ Overwritten(board_pieces, drop_piece(Self, pt[1], pt[2]).board_pieces,
                             SquareAt(pt), dragging_piece)

\* C14 witness: two squares are occupied and a black king is being dragged
\* over the white queen on (0, 0)
C14_Witness ==
    /\ dragging
    /\ dragging_piece = [piece |-> KING, color |-> "black"]
    /\ Cardinality(DOMAIN board_pieces) = 2
    /\ <<0, 0>> \in DOMAIN board_pieces
    /\ board_pieces[<<0, 0>>] = [piece |-> QUEEN, color |-> "white"]
    /\ on_release(Self, 0, 0).board_pieces[<<0, 0>>] = [piece |-> KING, color |-> "black"]

\* a step that picks a piece up from the board while no drag is in progress
PickUp == ~dragging /\ dragging' /\ board_pieces' # board_pieces

\* C16: when no drag is in progress and a piece is picked up from an
\* occupied square, the piece is absent from board_pieces while it is
\* dragged; if it is then released outside the 8 x 8 board, on_release puts
\* it back on its square with the same kind and side, so that the position
\* is the one before the pick-up, and dragging is false and dragging_piece
\* cleared.
C16_ReleaseOutsideRestores ==
    [][PickUp =>
         \E sq \in DOMAIN board_pieces :
            /\ board_pieces' = Del(board_pieces, sq)
            /\ dragging_piece' = board_pieces[sq]
            /\ drag_start_board_pos' = sq
            /\ \A pt \in OutsidePoints :
                  LET released == on_release(Self', pt[1], pt[2])
                  IN  /\ released.board_pieces = board_pieces
                      /\ released.dragging = FALSE
                      /\ released.dragging_piece = None]_vars

\* C16 witness: the white queen picked up from (1, 2) is being dragged, is
\* not on the board, and a release left of the board puts it back
C16_Witness ==
    /\ dragging
    /\ <<1, 2>> = drag_start_board_pos
    /\ dragging_piece = [piece |-> QUEEN, color |-> "white"]
    /\ <<1, 2>> \notin DOMAIN board_pieces
    /\ on_release(Self, -1, 30).board_pieces[<<1, 2>>] = [piece |-> QUEEN, color |-> "white"]
    /\ on_release(Self, -1, 30).dragging = FALSE

-----------------------------------------------------------------------------
(* Claim relating the position analysis to the two-piece game (SpecAnalyze) *)

\* the position holds exactly one white piece and one black piece
TwoPiecePosition ==
    Cardinality(SquaresOf("white")) = 1 /\ Cardinality(SquaresOf("black")) = 1

\* the two-piece game with the pieces of the position on their squares
GameOfPosition ==
    LET w == CHOOSE sq \in SquaresOf("white") : TRUE
        b == CHOOSE sq \in SquaresOf("black") : TRUE
    IN  new_game(board_pieces[w].piece, coords_to_position(w[1], w[2]),
                 board_pieces[b].piece, coords_to_position(b[1], b[2]))

\* C15: for every position with exactly one white piece and one black
\* piece, the winner prediction of analyze_position names the outcome
\* determine_winner returns for the same two pieces on the same squares:
\* white likely to win with "white ... wins", black likely to win with
\* "black ... wins", roughly equal with "draw".
C15_AnalysisAgreesWithGame ==
    (analysis # None /\ TwoPiecePosition) =>
        LET g == GameOfPosition
            winner == determine_winner(g)
        IN  /\ analysis.prediction = WHITE_LIKELY <=> winner = Ok(white_wins(g.white_piece))
            /\ analysis.prediction = BLACK_LIKELY <=> winner = Ok(black_wins(g.black_piece))
            /\ analysis.prediction = ROUGHLY_EQUAL <=> winner = Ok(draw)

====
